---- MODULE Spec2Model ----
(***************************************************************************)
(* The incident create path of the status page: the POST handler of        *)
(* src/frontend/src/app/api/incidents/route.ts, run by several concurrent  *)
(* requests against one durable store and one real-time transport.         *)
(* A request takes one step per awaited call of the handler; the store's   *)
(* Service table is also changed by its external manager.                  *)
(***************************************************************************)
EXTENDS Integers, Sequences, FiniteSets, TLC

None == "none"

\* ---------------------------------------------------------------- bounds
NumReqs == 2          \* concurrent create requests
MaxExternal == 1      \* changes the external manager makes to Service rows
MaxServiceIds == 2    \* longest serviceIds array a request carries

Reqs == 1..NumReqs

\* ------------------------------------------------- incidentSchema (zod)
TitleMin == 1
TitleMax == 100
DescriptionMin == 10
DescriptionMax == 1000
Statuses == {"investigating", "identified", "monitoring", "resolved"}
Impacts == {"minor", "major", "critical"}
IncidentTypes == {"incident", "maintenance"}
DefaultType == "incident"
Absent == "absent"

\* ------------------------------------------------------ store contents
\* db.organization: read-only here.
Organizations ==
  { [id |-> "O1", clerkOrgId |-> "K1"], [id |-> "O2", clerkOrgId |-> "K2"] }
OrgIds == {o.id : o \in Organizations}
\* db.service at start: id -> owning organization.
ServiceIdSet == {"S1", "S2", "S3"}
InitialServices == [s \in ServiceIdSet |-> IF s = "S3" THEN "O2" ELSE "O1"]

\* z.string().cuid(): the identifiers of the store are well formed.
IsCuid(s) == s \in OrgIds \cup ServiceIdSet
NotACuid == "not-a-cuid"

\* ------------------------------------------------------ request inputs
\* auth(): { userId, orgId } of the caller's session.
Sessions ==
  { [userId |-> None, orgId |-> None], [userId |-> "U1", orgId |-> None],
    [userId |-> "U1", orgId |-> "K1"], [userId |-> "U1", orgId |-> "K2"] }

ServiceIdLists == UNION { [1..n -> ServiceIdSet] : n \in 0..MaxServiceIds }
TypeInputs == {Absent, "maintenance"}
\* Bodies that satisfy every scalar rule, with every serviceIds array.
WellFormedBodies ==
  { [title |-> 5, description |-> 20, status |-> "investigating", impact |-> "minor",
     serviceIds |-> s, organizationId |-> o, type |-> t] :
       s \in ServiceIdLists, o \in OrgIds, t \in TypeInputs }
\* Bodies that break title, description and status at once.
IllFormedBodies ==
  { [title |-> 0, description |-> 5, status |-> "bogus", impact |-> "minor",
     serviceIds |-> s, organizationId |-> "O1", type |-> Absent] :
       s \in {<< >>, << "S1" >>} }
Bodies == WellFormedBodies \cup IllFormedBodies

\* The bodies the validator is run on by itself: every field at and around
\* the edges of its rule.
ValidatorInputs ==
  [ title : {TitleMin - 1, TitleMin, TitleMax, TitleMax + 1},
    description : {DescriptionMin - 1, DescriptionMin, DescriptionMax, DescriptionMax + 1},
    status : {"investigating", "bogus"},
    impact : {"critical", "bogus"},
    serviceIds : {<< >>, << "S1" >>, << "S1", NotACuid >>},
    organizationId : {"O1", NotACuid},
    type : {Absent, "incident", "maintenance", "bogus"} ]

VARIABLES
  services,          \* db.service: id -> owning organization, or None (deleted)
  incidents,         \* db.incident: the committed rows
  incidentServices,  \* db.incidentService: the committed rows
  nextId,            \* the next fresh incident id
  external,          \* changes made so far by the external manager
  triggers,          \* the calls made to pusherServer.trigger
  request,           \* per request: << what the form's fetch sent >>, if a form sent it
  pc,                \* per request: the await it stands at
  session,           \* per request: << what auth() returns >>
  json,              \* per request: << the body >>, once req.json() has read it
  servicesCount,     \* per request: << what db.service.count returned >>
  incidentId,        \* per request: << the id tx.incident.create gave its row >>
  tx,                \* per request: the uncommitted writes of its transaction
  result,            \* per request: << the hydrated incident the transaction returned >>
  response,          \* per request: << the NextResponse returned >>
  connected,         \* per request: whether the caller still holds the connection
  stages,            \* per request: the checks and calls executed, in order
  logged             \* per request: what console.error reported

vars == << services, incidents, incidentServices, nextId, external, triggers,
           request, pc, session, json, servicesCount, incidentId, tx, result,
           response, connected, stages, logged >>

store == << services, incidents, incidentServices, nextId, external >>
locals == << servicesCount, incidentId, tx, result >>

\* ------------------------------------------------------------- helpers
Range(s) == { s[i] : i \in 1..Len(s) }

\* The bug of stopping at the first rule that fails.
ViolationsFirstOnly(j) ==
  IF j.title < TitleMin \/ j.title > TitleMax THEN {"title"}
  ELSE IF j.description < DescriptionMin \/ j.description > DescriptionMax
    THEN {"description"}
  ELSE IF j.status \notin Statuses THEN {"status"}
  ELSE IF j.impact \notin Impacts THEN {"impact"}
  ELSE IF Len(j.serviceIds) < 1 \/ \E i \in 1..Len(j.serviceIds) : ~IsCuid(j.serviceIds[i])
    THEN {"serviceIds"}
  ELSE IF ~IsCuid(j.organizationId) THEN {"organizationId"}
  ELSE IF j.type \notin IncidentTypes \cup {Absent} THEN {"type"}
  ELSE {}

\* The bug of a serviceIds array without .min(1).
ViolationsWithoutMin(j) ==
  {f \in {"title"} : j.title < TitleMin \/ j.title > TitleMax}
  \cup {f \in {"description"} :
          j.description < DescriptionMin \/ j.description > DescriptionMax}
  \cup {f \in {"status"} : j.status \notin Statuses}
  \cup {f \in {"impact"} : j.impact \notin Impacts}
  \cup {f \in {"serviceIds"} :
          \E i \in 1..Len(j.serviceIds) : ~IsCuid(j.serviceIds[i])}
  \cup {f \in {"organizationId"} : ~IsCuid(j.organizationId)}
  \cup {f \in {"type"} : j.type \notin IncidentTypes \cup {Absent}}

\* incidentSchema.safeParse: the fields that violate a rule (all of them).
Violations(j) ==
  {f \in {"title"} : j.title < TitleMin \/ j.title > TitleMax}
  \cup {f \in {"description"} :
          j.description < DescriptionMin \/ j.description > DescriptionMax}
  \cup {f \in {"status"} : j.status \notin Statuses}
  \cup {f \in {"impact"} : j.impact \notin Impacts}
  \cup {f \in {"serviceIds"} :
          Len(j.serviceIds) < 1 \/ \E i \in 1..Len(j.serviceIds) : ~IsCuid(j.serviceIds[i])}
  \cup {f \in {"organizationId"} : ~IsCuid(j.organizationId)}
  \cup {f \in {"type"} : j.type \notin IncidentTypes \cup {Absent}}

\* The bug of a schema whose type has no default.
ValidationDataWithoutDefault(j) == j

\* validation.data: the body with the default of type applied.
ValidationData(j) ==
  [j EXCEPT !.type = IF j.type = Absent THEN DefaultType ELSE j.type]

\* The bug of checking the user alone.
UnauthenticatedUserOnly(s) == s.userId = None

\* if (!userId || !orgId)
Unauthenticated(s) == s.userId = None \/ s.orgId = None

\* The bug of looking the organization up by id alone.
FindOrganizationById(organizationId, orgId) ==
  { o \in Organizations : o.id = organizationId }

\* db.organization.findFirst({ where: { id, clerkOrgId } })
FindOrganization(organizationId, orgId) ==
  { o \in Organizations : o.id = organizationId /\ o.clerkOrgId = orgId }

\* db.service.count({ where: { id: { in: serviceIds }, organizationId } })
ServicesCount(svc, serviceIds, organizationId) ==
  Cardinality({ s \in DOMAIN svc : s \in Range(serviceIds) /\ svc[s] = organizationId })

\* The bug of accepting the request as soon as some service matches.
ServicesResolvedSome(count, serviceIds) == count > 0

\* The bug of comparing the count with the number of distinct identifiers.
ServicesResolvedDistinct(count, serviceIds) == count = Cardinality(Range(serviceIds))

\* if (servicesCount !== serviceIds.length): the check passes when equal.
ServicesResolved(count, serviceIds) == count = Len(serviceIds)

\* `org-${organizationId}`
Channel(organizationId) == << "org-", organizationId >>

\* NextResponse.json(...): an error body (with the details of a validation
\* error), or the hydrated incident.
Error(status, message) ==
  [status |-> status, error |-> message, details |-> {}, body |-> << >>]
Invalid(errors) ==
  [status |-> 400, error |-> "Invalid data", details |-> errors, body |-> << >>]
Ok(body) == [status |-> 200, error |-> None, details |-> {}, body |-> << body >>]

\* A transaction that has written nothing: the Incident row it wrote, the
\* IncidentService rows it inserted and those it deleted.
NoTx == [incident |-> << >>, rows |-> {}, deleted |-> {}]

\* ---------------------------------------------------------------- Init
Init ==
  /\ services = InitialServices
  /\ incidents = {}
  /\ incidentServices = {}
  /\ nextId = 1
  /\ external = 0
  /\ triggers = {}
  /\ request = [r \in Reqs |-> << >>]
  /\ pc = [r \in Reqs |-> "idle"]
  /\ session = [r \in Reqs |-> << >>]
  /\ json = [r \in Reqs |-> << >>]
  /\ servicesCount = [r \in Reqs |-> << >>]
  /\ incidentId = [r \in Reqs |-> << >>]
  /\ tx = [r \in Reqs |-> NoTx]
  /\ result = [r \in Reqs |-> << >>]
  /\ response = [r \in Reqs |-> << >>]
  /\ connected = [r \in Reqs |-> TRUE]
  /\ stages = [r \in Reqs |-> << >>]
  /\ logged = [r \in Reqs |-> None]

\* The catch block: log the error, answer 500.
Catch(r, what) ==
  /\ logged' = [logged EXCEPT ![r] = what]
  /\ response' = [response EXCEPT ![r] = << Error(500, "Internal server error") >>]
  /\ pc' = [pc EXCEPT ![r] = "done"]
  /\ UNCHANGED << connected, request >>

Return(r, resp) ==
  /\ response' = [response EXCEPT ![r] = << resp >>]
  /\ pc' = [pc EXCEPT ![r] = "done"]
  /\ UNCHANGED << logged, connected, request >>

Goto(r, label) ==
  /\ pc' = [pc EXCEPT ![r] = label]
  /\ UNCHANGED << response, logged, connected, request >>

Stage(r, name) == stages' = [stages EXCEPT ![r] = Append(@, name)]

\* POST is called: auth() and the session check, up to `await req.json()`.
Post(r) ==
  /\ pc[r] = "idle"
  /\ \E s \in Sessions :
       /\ session' = [session EXCEPT ![r] = << s >>]
       /\ IF Unauthenticated(s)
            THEN Return(r, Error(401, "Unauthorized"))
            ELSE Goto(r, "json")
  /\ Stage(r, "session")
  /\ UNCHANGED << store, triggers, json, locals >>

\* The bug of a missing return after the validation error.
ParseWithoutReturn(r) ==
  /\ pc[r] = "json"
  /\ \/ Catch(r, "req.json") /\ UNCHANGED << json, stages >>
     \/ \E j \in Bodies :
          /\ json' = [json EXCEPT ![r] = << j >>]
          /\ Stage(r, "validate")
          /\ Goto(r, "findOrganization")
  /\ UNCHANGED << store, triggers, session, locals >>

\* req.json() resolves with one of `inputs` (or rejects), then
\* incidentSchema.safeParse and the answer to a body that fails it.
ParseFrom(r, inputs) ==
  /\ pc[r] = "json"
  /\ \/ Catch(r, "req.json") /\ UNCHANGED << json, stages >>
     \/ \E j \in inputs :
          /\ json' = [json EXCEPT ![r] = << j >>]
          /\ Stage(r, "validate")
          /\ IF Violations(j) # {}
               THEN Return(r, Invalid(Violations(j)))
               ELSE Goto(r, "findOrganization")
  /\ UNCHANGED << store, triggers, session, locals >>

Parse(r) == ParseFrom(r, Bodies)

\* The same step on the bodies that probe the validator.
Validate(r) == ParseFrom(r, ValidatorInputs)

\* db.organization.findFirst resolves (or rejects).
FindFirst(r) ==
  /\ pc[r] = "findOrganization"
  /\ \/ Catch(r, "findFirst") /\ UNCHANGED stages
     \/ /\ Stage(r, "organization")
        /\ IF FindOrganization(json[r][1].organizationId, session[r][1].orgId) = {}
             THEN Return(r, Error(404, "Organization not found"))
             ELSE Goto(r, "count")
  /\ UNCHANGED << store, triggers, session, json, locals >>

\* db.service.count resolves (or rejects), then the comparison with serviceIds.length.
Count(r) ==
  /\ pc[r] = "count"
  /\ \/ Catch(r, "count") /\ UNCHANGED << stages, servicesCount >>
     \/ /\ Stage(r, "services")
        /\ LET data == ValidationData(json[r][1])
               count == ServicesCount(services, data.serviceIds, data.organizationId)
           IN  /\ servicesCount' = [servicesCount EXCEPT ![r] = << count >>]
               /\ IF ~ServicesResolved(count, data.serviceIds)
                    THEN Return(r, Error(400, "One or more services not found"))
                    ELSE Goto(r, "create")
  /\ UNCHANGED << store, triggers, session, json, incidentId, tx, result >>

\* The transaction's callback throws, or the store aborts it: every write of
\* the transaction is rolled back and the error reaches the catch block.
Rollback(r, what) ==
  /\ tx' = [tx EXCEPT ![r] = NoTx]
  /\ Catch(r, what)
  /\ UNCHANGED << services, incidents, incidentServices, external, triggers,
                  session, json, servicesCount, incidentId, result, stages >>

\* tx.incident.create: the row is written inside the transaction.
IncidentRow(id, data) ==
  [id |-> id, title |-> data.title, description |-> data.description,
   status |-> data.status, impact |-> data.impact, type |-> data.type,
   organizationId |-> data.organizationId]

\* The bug of writing the Incident row with db instead of tx: the row is
\* visible at once and no rollback removes it.
TxCreateOutsideTransaction(r) ==
  /\ pc[r] = "create"
  /\ \/ Rollback(r, "create") /\ UNCHANGED nextId
     \/ /\ tx' = [tx EXCEPT ![r].incident =
                    << IncidentRow(nextId, ValidationData(json[r][1])) >>]
        /\ incidents' = incidents \cup { IncidentRow(nextId, ValidationData(json[r][1])) }
        /\ incidentId' = [incidentId EXCEPT ![r] = << nextId >>]
        /\ nextId' = nextId + 1
        /\ Goto(r, "createMany")
        /\ UNCHANGED << services, incidentServices, external, triggers,
                        session, json, servicesCount, result, stages >>

\* The bug of a create keyed on something other than a fresh identity: the
\* row takes the identity the previous create took.
TxCreateSameIdentity(r) ==
  /\ pc[r] = "create"
  /\ \/ Rollback(r, "create") /\ UNCHANGED nextId
     \/ /\ tx' = [tx EXCEPT ![r].incident =
                    << IncidentRow(nextId, ValidationData(json[r][1])) >>]
        /\ incidentId' = [incidentId EXCEPT ![r] = << nextId >>]
        /\ Goto(r, "createMany")
        /\ UNCHANGED << store, triggers, session, json, servicesCount, result, stages >>

TxCreate(r) ==
  /\ pc[r] = "create"
  /\ \/ Rollback(r, "create") /\ UNCHANGED nextId
     \/ /\ tx' = [tx EXCEPT ![r].incident =
                    << IncidentRow(nextId, ValidationData(json[r][1])) >>]
        /\ incidentId' = [incidentId EXCEPT ![r] = << nextId >>]
        /\ nextId' = nextId + 1
        /\ Goto(r, "createMany")
        /\ UNCHANGED << services, incidents, incidentServices, external, triggers,
                        session, json, servicesCount, result, stages >>

\* serviceIds.map(serviceId => ({ incidentId: incident.id, serviceId })):
\* one row per element of the array (n is its place in the array).
ServiceRows(id, serviceIds) ==
  { [incidentId |-> id, serviceId |-> serviceIds[n], n |-> n] :
      n \in 1..Len(serviceIds) }

\* The foreign key of IncidentService.serviceId: the Service rows exist.
ForeignKeysHold(svc, serviceIds) ==
  \A s \in Range(serviceIds) : svc[s] # None

\* tx.incidentService.createMany: the rows are written inside the transaction.
TxCreateMany(r) ==
  /\ pc[r] = "createMany"
  /\ LET data == ValidationData(json[r][1])
     IN  \/ Rollback(r, "createMany") /\ UNCHANGED nextId
         \/ /\ ~ForeignKeysHold(services, data.serviceIds)
            /\ Rollback(r, "foreignKey") /\ UNCHANGED nextId
         \/ /\ ForeignKeysHold(services, data.serviceIds)
            /\ tx' = [tx EXCEPT ![r].rows =
                        ServiceRows(incidentId[r][1], data.serviceIds)]
            /\ Goto(r, "commit")
            /\ UNCHANGED << store, triggers, session, json, servicesCount,
                            incidentId, result, stages >>

\* tx.incident.findUnique with include: { services: { include: { service: true } } }.
Hydrate(incident, rows, svc) ==
  [incident |-> incident,
   services |-> { [serviceId |-> row.serviceId, n |-> row.n,
                   service |-> [id |-> row.serviceId,
                                organizationId |-> svc[row.serviceId]]] : row \in rows }]

\* The bug of a missing await on db.$transaction: the handler goes on to
\* publish while the transaction has not committed.
TxCommitNotAwaited(r) ==
  /\ pc[r] = "commit"
  /\ result' = [result EXCEPT ![r] =
                  << Hydrate(tx[r].incident[1], tx[r].rows, services) >>]
  /\ Stage(r, "write")
  /\ Goto(r, "trigger")
  /\ UNCHANGED << store, triggers, session, json, servicesCount, incidentId, tx >>

\* The callback returns the hydrated incident and the transaction commits:
\* its writes become visible together.
TxCommit(r) ==
  /\ pc[r] = "commit"
  /\ \/ Rollback(r, "commit") /\ UNCHANGED nextId
     \/ /\ incidents' = incidents \cup { tx[r].incident[1] }
        /\ incidentServices' = incidentServices \cup tx[r].rows
        /\ result' = [result EXCEPT ![r] =
                        << Hydrate(tx[r].incident[1], tx[r].rows, services) >>]
        /\ tx' = [tx EXCEPT ![r] = NoTx]
        /\ Stage(r, "write")
        /\ Goto(r, "trigger")
        /\ UNCHANGED << services, nextId, external, triggers, session, json,
                        servicesCount, incidentId >>

\* The bug of publishing the row tx.incident.create returned, which carries
\* no services.
TriggerCallWithoutServices(r, delivered) ==
  [req |-> r, channel |-> Channel(ValidationData(json[r][1]).organizationId),
   event |-> "incident-created",
   payload |-> [incident |-> result[r][1].incident, services |-> {}],
   delivered |-> delivered]

\* pusherServer.trigger resolves, rejects or never settles; after it,
\* NextResponse.json(incident).
TriggerCall(r, delivered) ==
  [req |-> r, channel |-> Channel(ValidationData(json[r][1]).organizationId),
   event |-> "incident-created", payload |-> result[r][1], delivered |-> delivered]

\* The bug of giving the publish up when the caller has gone.
TriggerUnlessAborted(r) ==
  /\ pc[r] = "trigger"
  /\ Stage(r, "notify")
  /\ \/ /\ connected[r]
        /\ triggers' = triggers \cup { TriggerCall(r, TRUE) }
        /\ Return(r, Ok(result[r][1]))
     \/ /\ connected[r]
        /\ triggers' = triggers \cup { TriggerCall(r, FALSE) }
        /\ Catch(r, "trigger")
     \/ /\ ~connected[r]
        /\ Return(r, Ok(result[r][1]))
        /\ UNCHANGED triggers
  /\ UNCHANGED << store, session, json, locals >>

Trigger(r) ==
  /\ pc[r] = "trigger"
  /\ Stage(r, "notify")
  /\ \/ /\ triggers' = triggers \cup { TriggerCall(r, TRUE) }
        /\ Return(r, Ok(result[r][1]))
     \/ /\ triggers' = triggers \cup { TriggerCall(r, FALSE) }
        /\ Catch(r, "trigger")
     \/ /\ triggers' = triggers \cup { TriggerCall(r, FALSE) }
        /\ Goto(r, "pending")
  /\ UNCHANGED << store, session, json, locals >>

\* The caller drops the connection while the write commits or is published;
\* the handler never looks at the request's abort signal.
Disconnect(r) ==
  /\ pc[r] \in {"commit", "trigger"}
  /\ connected[r]
  /\ connected' = [connected EXCEPT ![r] = FALSE]
  /\ UNCHANGED << store, triggers, pc, session, json, locals, response, stages,
                  logged, request >>

\* The external manager of services moves a service to another organization.
ReassignService(s, o) ==
  /\ external < MaxExternal
  /\ services[s] \notin {None, o}
  /\ services' = [services EXCEPT ![s] = o]
  /\ external' = external + 1
  /\ UNCHANGED << incidents, incidentServices, nextId, triggers, pc, session,
                  json, locals, response, connected, stages, logged, request >>

\* The external manager deletes a service no association row refers to.
DeleteService(s) ==
  /\ external < MaxExternal
  /\ services[s] # None
  /\ \A row \in incidentServices : row.serviceId # s
  /\ \A r \in Reqs : \A row \in tx[r].rows : row.serviceId # s
  /\ services' = [services EXCEPT ![s] = None]
  /\ external' = external + 1
  /\ UNCHANGED << incidents, incidentServices, nextId, triggers, pc, session,
                  json, locals, response, connected, stages, logged, request >>

Next ==
  \/ \E r \in Reqs :
       \/ Post(r)
       \/ Parse(r)
       \/ FindFirst(r)
       \/ Count(r)
       \/ TxCreate(r)
       \/ TxCreateMany(r)
       \/ TxCommit(r)
       \/ Trigger(r)
       \/ Disconnect(r)
  \/ \E s \in ServiceIdSet :
       \/ \E o \in OrgIds : ReassignService(s, o)
       \/ DeleteService(s)

Spec == Init /\ [][Next]_vars

\* One request, taken up to the end of validation, on the validator's inputs.
NextValidator == Post(1) \/ Validate(1)
SpecValidator == Init /\ [][NextValidator]_vars

\* Creates whose bodies differ in type alone: absent, either enumerated
\* value, or a value outside the enumeration.
TypedBodies ==
  { [title |-> 5, description |-> 20, status |-> "investigating", impact |-> "minor",
     serviceIds |-> << "S1" >>, organizationId |-> "O1", type |-> t] :
       t \in {Absent, "incident", "maintenance", "bogus"} }

ParseTyped(r) == ParseFrom(r, TypedBodies)

NextTyped ==
  \E r \in Reqs :
     \/ Post(r)
     \/ ParseTyped(r)
     \/ FindFirst(r)
     \/ Count(r)
     \/ TxCreate(r)
     \/ TxCreateMany(r)
     \/ TxCommit(r)
     \/ Trigger(r)

SpecTyped == Init /\ [][NextTyped]_vars

\* -------------------------------------------------- the form and the update
\* The service checkboxes of the form: an array without repeats, and
\* incidentFormSchema wants one service at least.
FormServiceIdLists ==
  { s \in ServiceIdLists : Len(s) >= 1 /\ Cardinality(Range(s)) = Len(s) }

\* What the user may have filled in when the form submits (two texts, two
\* statuses, every choice of services).
FormValues ==
  { [title |-> f.title, description |-> 20, status |-> f.status, impact |-> "minor",
     serviceIds |-> s] :
       f \in { [title |-> 5, status |-> "investigating"],
               [title |-> 7, status |-> "resolved"] },
       s \in FormServiceIdLists }

\* The organization whose page shows the form.
FormOrganizationId == "O1"

\* The bug of sending every submit as a create.
FormRequestAlwaysPost(incident, data, organizationId, incidentType) ==
  [incident |-> incident,
   method   |-> "POST",
   endpoint |-> << >>,
   body     |-> [title |-> data.title, description |-> data.description,
                 status |-> data.status, impact |-> data.impact,
                 serviceIds |-> data.serviceIds,
                 organizationId |-> organizationId, type |-> incidentType]]

\* onSubmit: the endpoint and the method follow from the `incident` prop
\* (<< >> when the form creates, << id >> when it edits); the body is the
\* form's data with organizationId and type added.
FormRequest(incident, data, organizationId, incidentType) ==
  [incident |-> incident,
   method   |-> IF incident # << >> THEN "PATCH" ELSE "POST",
   endpoint |-> incident,
   body     |-> [title |-> data.title, description |-> data.description,
                 status |-> data.status, impact |-> data.impact,
                 serviceIds |-> data.serviceIds,
                 organizationId |-> organizationId, type |-> incidentType]]

\* The user submits the form, opened to create or on an incident of the
\* organization's page.
Submit(r) ==
  /\ pc[r] = "idle"
  /\ request[r] = << >>
  /\ \E incident \in { << >> } \cup
                     { << i.id >> : i \in { x \in incidents :
                                              x.organizationId = FormOrganizationId } },
        data \in FormValues :
       request' = [request EXCEPT ![r] =
                     << FormRequest(incident, data, FormOrganizationId, DefaultType) >>]
  /\ UNCHANGED << store, triggers, pc, session, json, locals, response, connected,
                  stages, logged >>

IsPost(r) == request[r] # << >> /\ request[r][1].method = "POST"
IsPatch(r) == request[r] # << >> /\ request[r][1].method = "PATCH"

\* The handler receives the form's request: the session check, then the body
\* the form sent.
FormPost(r) == request[r] # << >> /\ Post(r)
FormParse(r) == request[r] # << >> /\ ParseFrom(r, { request[r][1].body })

\* The create route's transaction and publish, for the form's POST.
FormTxCreate(r) == IsPost(r) /\ TxCreate(r)
FormTxCommit(r) == IsPost(r) /\ TxCommit(r)

\* The incident an update targets, within the caller's organization.
Target(r) ==
  { i \in incidents : /\ i.id = request[r][1].endpoint[1]
                      /\ i.organizationId = json[r][1].organizationId }

\* Another transaction holds the row of the incident this request updates.
Locked(r) ==
  \E q \in Reqs \ {r} :
     /\ tx[q].incident # << >>
     /\ tx[q].incident[1].id = request[r][1].endpoint[1]

\* Update, step 1: NotFound before any write, else the mutable fields are
\* overwritten on the Incident row (the row stays locked until commit).
TxUpdate(r) ==
  /\ pc[r] = "create"
  /\ IsPatch(r)
  /\ \/ Rollback(r, "update") /\ UNCHANGED nextId
     \/ /\ Target(r) = {}
        /\ Return(r, Error(404, "Incident not found"))
        /\ UNCHANGED << store, triggers, session, json, locals, stages >>
     \/ /\ Target(r) # {}
        /\ ~Locked(r)
        /\ LET old == CHOOSE i \in Target(r) : TRUE
               data == ValidationData(json[r][1])
           IN  tx' = [tx EXCEPT ![r].incident =
                        << [old EXCEPT !.title = data.title,
                                       !.description = data.description,
                                       !.status = data.status,
                                       !.impact = data.impact] >>]
        /\ incidentId' = [incidentId EXCEPT ![r] = << request[r][1].endpoint[1] >>]
        /\ Goto(r, "deleteMany")
        /\ UNCHANGED << store, triggers, session, json, servicesCount, result, stages >>

\* Update, step 2: every prior association of the incident is deleted.
TxDeleteMany(r) ==
  /\ pc[r] = "deleteMany"
  /\ \/ Rollback(r, "deleteMany") /\ UNCHANGED nextId
     \/ /\ tx' = [tx EXCEPT ![r].deleted =
                    { row \in incidentServices : row.incidentId = incidentId[r][1] }]
        /\ Goto(r, "createMany")
        /\ UNCHANGED << store, triggers, session, json, servicesCount, incidentId,
                        result, stages >>

\* Update, step 4 (step 3 is the insert of the new set, TxCreateMany): the
\* transaction commits, and its writes and deletes become visible together;
\* the hydrated incident is read inside it.
TxCommitUpdate(r) ==
  /\ pc[r] = "commit"
  /\ IsPatch(r)
  /\ \/ Rollback(r, "commit") /\ UNCHANGED nextId
     \/ /\ incidents' = { i \in incidents : i.id # incidentId[r][1] }
                          \cup { tx[r].incident[1] }
        /\ incidentServices' = (incidentServices \ tx[r].deleted) \cup tx[r].rows
        /\ result' = [result EXCEPT ![r] =
                        << Hydrate(tx[r].incident[1],
                                   { row \in incidentServices' :
                                       row.incidentId = incidentId[r][1] },
                                   services) >>]
        /\ tx' = [tx EXCEPT ![r] = NoTx]
        /\ Stage(r, "write")
        /\ Goto(r, "triggerUpdate")
        /\ UNCHANGED << services, nextId, external, triggers, session, json,
                        servicesCount, incidentId >>

\* Update, publish: the event is named for an update; a failed publish is
\* logged and the update is still answered as a success.
TriggerUpdate(r) ==
  /\ pc[r] = "triggerUpdate"
  /\ Stage(r, "notify")
  /\ \E delivered \in BOOLEAN :
       /\ triggers' = triggers \cup
            { [TriggerCall(r, delivered) EXCEPT !.event = "incident-updated"] }
       /\ logged' = [logged EXCEPT ![r] = IF delivered THEN @ ELSE "trigger"]
  /\ response' = [response EXCEPT ![r] = << Ok(result[r][1]) >>]
  /\ pc' = [pc EXCEPT ![r] = "done"]
  /\ UNCHANGED << store, session, json, locals, connected, request >>

\* The store the form's page opens on: every service belongs to the
\* organization, and incident 1 affects S1 and S2.
ExistingIncident ==
  [id |-> 1, title |-> 5, description |-> 20, status |-> "investigating",
   impact |-> "minor", type |-> DefaultType, organizationId |-> FormOrganizationId]

InitForm ==
  /\ services = [s \in ServiceIdSet |-> FormOrganizationId]
  /\ incidents = { ExistingIncident }
  /\ incidentServices = ServiceRows(1, << "S1", "S2" >>)
  /\ nextId = 2
  /\ external = 0
  /\ triggers = {}
  /\ request = [r \in Reqs |-> << >>]
  /\ pc = [r \in Reqs |-> "idle"]
  /\ session = [r \in Reqs |-> << >>]
  /\ json = [r \in Reqs |-> << >>]
  /\ servicesCount = [r \in Reqs |-> << >>]
  /\ incidentId = [r \in Reqs |-> << >>]
  /\ tx = [r \in Reqs |-> NoTx]
  /\ result = [r \in Reqs |-> << >>]
  /\ response = [r \in Reqs |-> << >>]
  /\ connected = [r \in Reqs |-> TRUE]
  /\ stages = [r \in Reqs |-> << >>]
  /\ logged = [r \in Reqs |-> None]

NextForm ==
  \E r \in Reqs :
     \/ Submit(r)
     \/ FormPost(r)
     \/ FormParse(r)
     \/ FindFirst(r)
     \/ Count(r)
     \/ FormTxCreate(r)
     \/ TxUpdate(r)
     \/ TxDeleteMany(r)
     \/ TxCreateMany(r)
     \/ FormTxCommit(r)
     \/ TxCommitUpdate(r)
     \/ Trigger(r)
     \/ TriggerUpdate(r)

SpecForm == InitForm /\ [][NextForm]_vars

\* ------------------------------------------------------------ the claims
\* What console.error reports when the transaction was rolled back.
TxErrors == {"create", "createMany", "foreignKey", "commit"}
\* The committed rows that came from request r, and its calls to trigger.
IncidentsOf(r) == { i \in incidents : incidentId[r] = << i.id >> }
AssociationsOf(r) == { row \in incidentServices : incidentId[r] = << row.incidentId >> }
TriggersOf(r) == { t \in triggers : t.req = r }
\* The association rows a hydrated incident shows.
RowsOfPayload(p) ==
  { [incidentId |-> p.incident.id, serviceId |-> s.serviceId, n |-> s.n] : s \in p.services }

\* C1: a publish for an incident is attempted only after the transaction that
\* inserted the incident and its association rows has committed: whatever was
\* handed to the transport is in the committed tables, a request that has not
\* yet committed has published nothing, and a request whose transaction was
\* rolled back never publishes.
C1_PublishOnlyAfterCommit ==
  /\ \A t \in triggers :
       /\ t.payload.incident \in incidents
       /\ RowsOfPayload(t.payload) # {}
       /\ RowsOfPayload(t.payload) \subseteq incidentServices
  /\ \A r \in Reqs :
       pc[r] \in {"idle", "json", "findOrganization", "count", "create",
                  "createMany", "commit"} => TriggersOf(r) = {}
  /\ \A r \in Reqs : logged[r] \in TxErrors => TriggersOf(r) = {}

\* One request has published its committed incident, another was rolled back.
C1_Witness ==
  \E r1, r2 \in Reqs :
    /\ TriggersOf(r1) # {}
    /\ IncidentsOf(r1) # {}
    /\ logged[r2] \in TxErrors

\* C2: when the transaction has committed and the publish attempt fails, the
\* request is still answered with success carrying the hydrated incident.
C2_PublishFailureStillSuccess ==
  \A r \in Reqs :
    (pc[r] = "done" /\ IncidentsOf(r) # {} /\ \E t \in TriggersOf(r) : ~t.delivered)
      => response[r] = << Ok(result[r][1]) >>

\* C3: create is atomic: in every state, of each request either the Incident
\* row and all of its IncidentService rows are committed or none of them is;
\* a rolled back transaction leaves no row in either table, and no row of
\* either table is an orphan.
C3_CreateIsAtomic ==
  /\ \A r \in Reqs :
       \/ IncidentsOf(r) = {} /\ AssociationsOf(r) = {}
       \/ /\ IncidentsOf(r) =
               { IncidentRow(incidentId[r][1], ValidationData(json[r][1])) }
          /\ AssociationsOf(r) = ServiceRows(incidentId[r][1], json[r][1].serviceIds)
          /\ AssociationsOf(r) # {}
  /\ \A r \in Reqs :
       logged[r] \in TxErrors => IncidentsOf(r) = {} /\ AssociationsOf(r) = {}
  /\ \A i \in incidents : \E r \in Reqs : i \in IncidentsOf(r)
  /\ \A row \in incidentServices : \E i \in incidents : i.id = row.incidentId

\* A transaction failed between the Incident insert and the IncidentService
\* inserts, while another request committed its incident.
C3_Witness ==
  \E r1, r2 \in Reqs :
    /\ logged[r1] \in {"createMany", "foreignKey"}
    /\ incidentId[r1] # << >>
    /\ IncidentsOf(r2) # {}

\* The answers of the handler.
Unauthorized == Error(401, "Unauthorized")
InvalidData(r) == response[r] # << >> /\ response[r][1].error = "Invalid data"
OrganizationNotFound == Error(404, "Organization not found")
ServicesNotFound == Error(400, "One or more services not found")
InternalError == Error(500, "Internal server error")

\* The distinct identifiers request r asks for.
Requested(r) == Range(json[r][1].serviceIds)
\* The service check of r found fewer Service rows of the organization than
\* r names distinct identifiers: some identifier did not resolve.
Unresolved(r) ==
  /\ servicesCount[r] # << >>
  /\ servicesCount[r][1] < Cardinality(Requested(r))

\* C4: a create request whose service check meets an identifier that does
\* not resolve to a Service of the organization named in organizationId is
\* answered 400 "One or more services not found", commits no Incident and no
\* IncidentService row, and publishes nothing.
C4_UnresolvedServiceRejected ==
  \A r \in Reqs :
    Unresolved(r) =>
      /\ response[r] = << ServicesNotFound >>
      /\ incidentId[r] = << >> /\ tx[r] = NoTx
      /\ IncidentsOf(r) = {} /\ AssociationsOf(r) = {}
      /\ TriggersOf(r) = {}

\* A request for one organization names a service of another organization,
\* next to a service of its own, and was answered.
C4_Witness ==
  \E r \in Reqs :
    /\ Unresolved(r)
    /\ pc[r] = "done"
    /\ \E s \in Requested(r) : services[s] \notin {None, json[r][1].organizationId}
    /\ \E s \in Requested(r) : services[s] = json[r][1].organizationId

\* C5: the service check passes exactly when the number of matching Service
\* rows of the organization equals the number of distinct requested
\* identifiers (so an array that repeats a resolving identifier passes).
C5_CheckCountsDistinctIdentifiers ==
  \A r \in Reqs :
    servicesCount[r] # << >> =>
      ( response[r] # << ServicesNotFound >>
          <=> servicesCount[r][1] = Cardinality(Requested(r)) )

IsPrefix(s, t) == Len(s) <= Len(t) /\ SubSeq(t, 1, Len(s)) = s
\* The order of the stages as the claim gives it, and as the handler runs them.
ClaimedOrder == << "validate", "session", "organization", "services", "write", "notify" >>
HandlerOrder == << "session", "validate", "organization", "services", "write", "notify" >>
Upto(n) == SubSeq(HandlerOrder, 1, n)

\* C6 as stated: the stages run in the order Validated, Authorized (session,
\* organization, services), Written, Notified: the body is validated before
\* any authorization check.
C6_ValidationBeforeAuthorization ==
  \A r \in Reqs : IsPrefix(stages[r], ClaimedOrder)

\* C6 amended: the stages run in the order session check, validation,
\* organization check, service check, write, notify, respond, none skipped;
\* a request that fails at a stage runs no later stage and is answered once,
\* with the error of the earliest failing stage in this order.
C6_StagesInHandlerOrder ==
  \A r \in Reqs :
    /\ IsPrefix(stages[r], HandlerOrder)
    /\ (pc[r] = "done") <=> (response[r] # << >>)
    /\ response[r] = << Unauthorized >> => stages[r] = Upto(1)
    /\ InvalidData(r) => stages[r] = Upto(2)
    /\ response[r] = << OrganizationNotFound >> => stages[r] = Upto(3)
    /\ response[r] = << ServicesNotFound >> => stages[r] = Upto(4)
    /\ (response[r] # << >> /\ response[r][1].status = 200) => stages[r] = Upto(6)
    /\ response[r] = << InternalError >> =>
         \/ logged[r] = "req.json" /\ stages[r] = Upto(1)
         \/ logged[r] = "findFirst" /\ stages[r] = Upto(2)
         \/ logged[r] = "count" /\ stages[r] = Upto(3)
         \/ logged[r] \in TxErrors /\ stages[r] = Upto(4)
         \/ logged[r] = "trigger" /\ stages[r] = Upto(6)
    /\ (session[r] # << >> /\ (session[r][1].userId = None \/ session[r][1].orgId = None))
         => response[r] = << Unauthorized >>
    /\ (json[r] # << >> /\ Violations(json[r][1]) # {})
         => InvalidData(r)

\* One request went through every stage and was answered 200, another was
\* stopped by validation.
C6_Witness ==
  \E r1, r2 \in Reqs :
    /\ stages[r1] = HandlerOrder /\ response[r1] # << >> /\ response[r1][1].status = 200
    /\ InvalidData(r2)

\* C7: every call to the transport is made on the channel org-<id> of the
\* organization that owns the published incident, that incident is the one
\* the calling request created, and the organization's external-auth key is
\* the organization of the caller's session.
C7_TenantIsolation ==
  \A t \in triggers :
    /\ t.payload.incident \in IncidentsOf(t.req)
    /\ t.channel = << "org-", t.payload.incident.organizationId >>
    /\ \E o \in Organizations :
         /\ o.id = t.payload.incident.organizationId
         /\ o.clerkOrgId = session[t.req][1].orgId

\* Incidents of two organizations were published, each on its own channel.
C7_Witness ==
  \E t1, t2 \in triggers :
    t1.payload.incident.organizationId # t2.payload.incident.organizationId

\* C8: a request without an authenticated session is answered 401
\* Unauthorized; an authenticated request with a valid body whose
\* organizationId matches no organization with the caller's external-auth
\* key is answered 404 (the lookup itself not failing); neither commits a
\* row to the Incident or IncidentService table nor publishes anything.
C8_RejectedLeavesNoTrace ==
  \A r \in Reqs :
    /\ (session[r] # << >> /\ (session[r][1].userId = None \/ session[r][1].orgId = None))
         => response[r] = << Unauthorized >>
    /\ ( /\ pc[r] = "done" /\ logged[r] = None
         /\ json[r] # << >> /\ Violations(json[r][1]) = {}
         /\ ~\E o \in Organizations :
               /\ o.id = json[r][1].organizationId
               /\ o.clerkOrgId = session[r][1].orgId )
         => response[r] = << OrganizationNotFound >>
    /\ response[r] \in {<< Unauthorized >>, << OrganizationNotFound >>}
         => /\ incidentId[r] = << >> /\ tx[r] = NoTx
            /\ IncidentsOf(r) = {} /\ AssociationsOf(r) = {}
            /\ TriggersOf(r) = {}

\* One request was answered 401 and another 404.
C8_Witness ==
  \E r1, r2 \in Reqs :
    /\ response[r1] = << Unauthorized >>
    /\ response[r2] = << OrganizationNotFound >>

\* C9: every committed Incident has at least one committed IncidentService row.
C9_IncidentHasService ==
  \A i \in incidents : \E row \in incidentServices : row.incidentId = i.id

\* Two incidents are committed, one of them with two services.
C9_Witness ==
  /\ Cardinality(incidents) = 2
  /\ \E i \in incidents :
       Cardinality({ row \in incidentServices : row.incidentId = i.id }) = 2

\* C10: each IncidentService row a create writes references a Service that,
\* when the transaction reads it back and commits, belongs to the
\* organization of the row's Incident.
C10_ServiceOfSameOrganization ==
  \A r \in Reqs :
    result[r] # << >> =>
      \A s \in result[r][1].services :
        s.service.organizationId = result[r][1].incident.organizationId

\* C11: for every create request whose write transaction commits, exactly
\* one publish attempt is made, with event name "incident-created" on the
\* channel of the incident's organization, and it is never repeated; as long
\* as it has not been made the handler stands at the call, which it can take
\* whether or not the caller is still connected.
C11_ExactlyOnePublish ==
  \A r \in Reqs :
    IncidentsOf(r) # {} =>
      /\ Cardinality(TriggersOf(r)) <= 1
      /\ (TriggersOf(r) = {}) <=> (pc[r] = "trigger")
      /\ pc[r] = "trigger" => ENABLED Trigger(r)
      /\ \A t \in TriggersOf(r) :
           /\ t.event = "incident-created"
           /\ \E i \in IncidentsOf(r) : t.channel = << "org-", i.organizationId >>

\* The caller left after the commit and the one publish was still made.
C11_Witness ==
  \E r \in Reqs :
    /\ IncidentsOf(r) # {}
    /\ ~connected[r]
    /\ Cardinality(TriggersOf(r)) = 1

\* C12: a request is answered exactly once, and a request whose write has
\* committed is answered even when the transport never completes the
\* publish call.
C12_AnsweredThoughPublishPending ==
  \A r \in Reqs :
    /\ (pc[r] = "done") <=> (response[r] # << >>)
    /\ (pc[r] = "pending" /\ IncidentsOf(r) # {}) => response[r] # << >>

\* The rules of the validator as C13 lists them, field by field.
TitleOk(j) == 1 <= j.title /\ j.title <= 100
DescriptionOk(j) == 10 <= j.description /\ j.description <= 1000
StatusOk(j) == j.status \in {"investigating", "identified", "monitoring", "resolved"}
ImpactOk(j) == j.impact \in {"minor", "major", "critical"}
ServiceIdsOk(j) ==
  j.serviceIds # << >> /\ \A i \in DOMAIN j.serviceIds : j.serviceIds[i] # NotACuid
TypeOk(j) == j.type \in {Absent, "incident", "maintenance"}
OrganizationIdOk(j) == j.organizationId # NotACuid
\* The fields of the claim's list that j violates.
ListedViolations(j) ==
  { f \in {"title", "description", "status", "impact", "serviceIds", "type"} :
      \/ f = "title" /\ ~TitleOk(j)
      \/ f = "description" /\ ~DescriptionOk(j)
      \/ f = "status" /\ ~StatusOk(j)
      \/ f = "impact" /\ ~ImpactOk(j)
      \/ f = "serviceIds" /\ ~ServiceIdsOk(j)
      \/ f = "type" /\ ~TypeOk(j) }
\* The request's body passed validation: the handler went on to the
\* organization lookup.
Accepted(r) == json[r] # << >> /\ ~InvalidData(r)

\* C13 as stated: the validator accepts a body exactly when title,
\* description, status, impact, serviceIds and type satisfy their rules.
C13_AcceptsExactlyListedRules ==
  \A r \in Reqs :
    json[r] # << >> => (Accepted(r) <=> ListedViolations(json[r][1]) = {})

\* C13 amended: the validator accepts a body exactly when title,
\* description, status, impact, serviceIds and type satisfy their rules and
\* organizationId is a well-formed identifier; a rejection is answered 400
\* "Invalid data" and reports every violated field, not only the first.
C13_AcceptsExactlyValid ==
  \A r \in Reqs :
    json[r] # << >> =>
      LET j == json[r][1]
          violated == ListedViolations(j)
                        \cup { f \in {"organizationId"} : ~OrganizationIdOk(j) }
      IN  /\ Accepted(r) <=> violated = {}
          /\ Accepted(r) => pc[r] = "findOrganization" /\ response[r] = << >>
          /\ ~Accepted(r) =>
                /\ response[r][1].status = 400
                /\ response[r][1].details = violated

\* A body that breaks title, description, status and serviceIds at once was
\* rejected with all four reported.
C13_Witness ==
  /\ InvalidData(1)
  /\ {"title", "description", "status", "serviceIds"} \subseteq response[1][1].details
  /\ json[1][1].title = 0

\* The services an incident is associated with, as a reader outside every
\* transaction sees them.
Associated(id) == { row.serviceId : row \in { x \in incidentServices : x.incidentId = id } }

\* The request was submitted by the form opened on incident `id`.
Edits(r, id) == request[r] # << >> /\ request[r][1].incident = << id >>

Succeeded(r) == response[r] # << >> /\ response[r][1].status = 200
Committed(r) == "write" \in Range(stages[r])

\* C14: in every state a reader finds each incident with one association at
\* least; an edit of an incident that was answered as a success returned that
\* incident with exactly the services of its serviceIds; and once edits of an
\* incident have committed, the incident is associated with exactly the
\* services of one of them (of the only one, when one committed: {A, B}
\* edited with [B, C] is left with {B, C}).
C14_UpdateReplacesSet ==
  /\ \A i \in incidents : Associated(i.id) # {}
  /\ \A r \in Reqs : \A i \in incidents :
       Edits(r, i.id) /\ Succeeded(r) =>
         /\ response[r][1].body[1].incident.id = i.id
         /\ { s.serviceId : s \in response[r][1].body[1].services }
              = Range(request[r][1].body.serviceIds)
  /\ \A i \in incidents :
       LET editors == { r \in Reqs : Edits(r, i.id) /\ Committed(r) }
       IN  editors # {} =>
             Associated(i.id) \in { Range(request[r][1].body.serviceIds) : r \in editors }

\* Incident 1, associated with S1 and S2 and touched by no other request, was
\* edited with [S2, S3] and is now associated with exactly S2 and S3.
C14_Witness ==
  \E r \in Reqs :
     /\ Edits(r, 1)
     /\ request[r][1].body.serviceIds = << "S2", "S3" >>
     /\ Succeeded(r)
     /\ \A q \in Reqs \ {r} : ~Committed(q)
     /\ Associated(1) = {"S2", "S3"}
     /\ \A s \in {"S2", "S3"} :
          Cardinality({ row \in incidentServices :
                          row.incidentId = 1 /\ row.serviceId = s }) = 1

\* The incident `id` as the store holds it now, hydrated.
Current(id) ==
  Hydrate(CHOOSE i \in incidents : i.id = id,
          { row \in incidentServices : row.incidentId = id }, services)

\* Two committed creates of one and the same body made two incidents, each
\* with its own association rows.
CreateNotIdempotent ==
  \A r \in Reqs : \A q \in Reqs \ {r} :
     /\ IsPost(r) /\ IsPost(q)
     /\ Committed(r) /\ Committed(q)
     /\ json[r] = json[q]
     => /\ incidentId[r] # incidentId[q]
        /\ IncidentsOf(r) # {} /\ IncidentsOf(q) # {}
        /\ IncidentsOf(r) \cap IncidentsOf(q) = {}
        /\ AssociationsOf(r) # {} /\ AssociationsOf(q) # {}
        /\ AssociationsOf(r) \cap AssociationsOf(q) = {}

\* The step in which an edit commits on an incident that stands as an edit
\* of the same intent left it changes nothing in the store, and returns the
\* incident the first edit returned.
UpdateIdempotent ==
  \A r \in Reqs : \A q \in Reqs \ {r} : \A i \in incidents :
     /\ Edits(r, i.id) /\ Edits(q, i.id)
     /\ request[r][1].body = request[q][1].body
     /\ Committed(r) /\ result[r] = << Current(i.id) >>
     /\ ~Committed(q) /\ Committed(q)'
     => /\ incidents' = incidents
        /\ incidentServices' = incidentServices
        /\ result'[q] = result[r]

\* C15: create is not idempotent (two identical committed creates are two
\* distinct incidents with their own association rows) and update is (the
\* same edit applied a second time leaves the store as the first left it).
C15_CreateNotIdempotentUpdateIs ==
  [][CreateNotIdempotent' /\ UpdateIdempotent]_vars

\* Two edits of incident 1 with one and the same intent, which changes the
\* incident, have both committed.
C15_Witness ==
  /\ \A r \in Reqs : Edits(r, 1) /\ Committed(r)
  /\ request[1][1].body = request[2][1].body
  /\ request[1][1].body.serviceIds = << "S3" >>
  /\ request[1][1].body.status = "resolved"
  /\ result[1] = result[2]
  /\ result[1] = << Current(1) >>

\* C16: no two committed IncidentService rows have the same incident and the
\* same service (a serviceIds array that repeats an identifier commits nothing).
C16_PairUnique ==
  /\ \A x \in incidentServices : \A y \in incidentServices :
       x.incidentId = y.incidentId /\ x.serviceId = y.serviceId => x = y
  /\ \A r \in Reqs :
       json[r] # << >> /\ Cardinality(Requested(r)) < Len(json[r][1].serviceIds)
         => ~Committed(r) /\ AssociationsOf(r) = {}

\* A request whose serviceIds repeats a service of its organization was
\* turned away by the service check while another request committed two rows.
C16_Witness ==
  \E r \in Reqs : \E q \in Reqs \ {r} :
     /\ json[r] # << >>
     /\ json[r][1].serviceIds = << "S1", "S1" >>
     /\ servicesCount[r] = << 1 >>
     /\ response[r] = << ServicesNotFound >>
     /\ Cardinality(AssociationsOf(q)) = 2

\* C17: what a create published, what it returned and what its transaction
\* committed are one hydrated incident: the row has the fields of the
\* validated body (type "incident" when the body has none) and is the
\* committed row, and the services are those of the committed rows, which are
\* exactly the requested ones.
C17_PublishedReturnedCommittedAgree ==
  \A r \in Reqs :
     LET j == json[r][1]
         row == [id |-> incidentId[r][1], title |-> j.title,
                 description |-> j.description, status |-> j.status,
                 impact |-> j.impact,
                 type |-> IF j.type = Absent THEN "incident" ELSE j.type,
                 organizationId |-> j.organizationId]
     IN  /\ \A t \in TriggersOf(r) :
              /\ t.payload.incident = row
              /\ IncidentsOf(r) = { row }
              /\ RowsOfPayload(t.payload) = AssociationsOf(r)
              /\ { s.serviceId : s \in t.payload.services } = Range(j.serviceIds)
              /\ t.channel = << "org-", j.organizationId >>
         /\ Succeeded(r) =>
              /\ TriggersOf(r) # {}
              /\ \A t \in TriggersOf(r) : t.payload = response[r][1].body[1]

\* Two creates with different bodies both succeeded, one with two services.
C17_Witness ==
  /\ \A r \in Reqs : Succeeded(r) /\ TriggersOf(r) # {}
  /\ json[1][1].serviceIds = << "S1", "S2" >>
  /\ json[2][1].serviceIds = << "S2" >>
  /\ json[1][1].type # json[2][1].type
  /\ response[1] # response[2]

\* C18: a created incident has the type its request gave, "incident" or
\* "maintenance", and "incident" when the request gave none; no created
\* incident has another type.
C18_TypeGivenOrDefault ==
  \A r \in Reqs : \A i \in IncidentsOf(r) :
     /\ json[r][1].type \in {"incident", "maintenance"} => i.type = json[r][1].type
     /\ json[r][1].type = "absent" => i.type = "incident"
     /\ i.type \in {"incident", "maintenance"}
     /\ \A t \in TriggersOf(r) : t.payload.incident.type = i.type

\* One create that gave no type made an incident of type "incident", and
\* another that asked for maintenance made a maintenance.
C18_Witness ==
  \E r \in Reqs : \E q \in Reqs \ {r} :
     /\ json[r] # << >> /\ json[r][1].type = "absent"
     /\ \E i \in IncidentsOf(r) : i.type = "incident"
     /\ json[q] # << >> /\ json[q][1].type = "maintenance"
     /\ \E i \in IncidentsOf(q) : i.type = "maintenance"

====
